---- MODULE Spec2Model ----
(***************************************************************************)
(* A model of llama/unicode.cpp: the UTF-8 codec, the GPT-2 byte maps, the *)
(* GPT-2 and LLaMA-3 hand-written pre-token splitters, the std::regex      *)
(* fallback splitter and the driver unicode_regex_split.                   *)
(*                                                                         *)
(* Bytes are numbers 0..255, codepoints are numbers, strings are sequences *)
(* of bytes.  Shifts and masks of the C++ code are written with \div and % *)
(* (x >> 6 is x \div 64, x & 0x3f is x % 64, 0xc0 | v is 192 + v, v < 64). *)
(***************************************************************************)
EXTENDS Integers, Sequences, FiniteSets, TLC

(***************************************************************************)
(* Small helpers on sequences.                                             *)
(***************************************************************************)
RECURSIVE SumSeq(_)
SumSeq(s) == IF s = <<>> THEN 0 ELSE Head(s) + SumSeq(Tail(s))

RECURSIVE Flatten(_)
Flatten(ss) == IF ss = <<>> THEN <<>> ELSE Head(ss) \o Flatten(Tail(ss))

SeqsUpTo(S, n) == UNION {[1..k -> S] : k \in 0..n}

(***************************************************************************)
(* unicode_cpt_to_utf8: 1..4 bytes, or the invalid_argument exception.     *)
(* A result is a record: err = "none" and val the bytes, or err the        *)
(* exception and val empty.                                                *)
(***************************************************************************)
Ok(v) == [err |-> "none", val |-> v]
Throw(e) == [err |-> e, val |-> <<>>]

CptToUtf8_NoContinuationMark(cp) ==
    IF cp <= 127 THEN Ok(<<cp>>)
    ELSE IF 128 <= cp /\ cp <= 2047
         THEN Ok(<<192 + ((cp \div 64) % 32), 128 + (cp % 64)>>)
    ELSE IF 2048 <= cp /\ cp <= 65535
         THEN Ok(<<224 + ((cp \div 4096) % 16), 128 + ((cp \div 64) % 64), cp % 64>>)
    ELSE IF 65536 <= cp /\ cp <= 1114111
         THEN Ok(<<240 + ((cp \div 262144) % 8), 128 + ((cp \div 4096) % 64),
                   128 + ((cp \div 64) % 64), 128 + (cp % 64)>>)
    ELSE Throw("invalid_codepoint")

unicode_cpt_to_utf8(cp) ==
    IF cp <= 127 THEN Ok(<<cp>>)
    ELSE IF 128 <= cp /\ cp <= 2047
         THEN Ok(<<192 + ((cp \div 64) % 32), 128 + (cp % 64)>>)
    ELSE IF 2048 <= cp /\ cp <= 65535
         THEN Ok(<<224 + ((cp \div 4096) % 16), 128 + ((cp \div 64) % 64),
                   128 + (cp % 64)>>)
    ELSE IF 65536 <= cp /\ cp <= 1114111
         THEN Ok(<<240 + ((cp \div 262144) % 8), 128 + ((cp \div 4096) % 64),
                   128 + ((cp \div 64) % 64), 128 + (cp % 64)>>)
    ELSE Throw("invalid_codepoint")

(***************************************************************************)
(* unicode_cpts_to_utf8: the concatenation of the encodings; the first     *)
(* failing codepoint throws.                                               *)
(***************************************************************************)
\* the encodings of cps[lo..hi] appended in order, the range halved at each
\* level
CptsToUtf8Append(h, t) ==
    IF h.err # "none" THEN Throw(h.err)
    ELSE IF t.err # "none" THEN Throw(t.err)
    ELSE Ok(h.val \o t.val)

RECURSIVE CptsToUtf8Range(_, _, _)
CptsToUtf8Range(cps, lo, hi) ==
    IF lo > hi THEN Ok(<<>>)
    ELSE IF lo = hi THEN unicode_cpt_to_utf8(cps[lo])
    ELSE LET mid == (lo + hi) \div 2 IN
         CHOOSE r \in {CptsToUtf8Append(h, t) :
                          h \in {CptsToUtf8Range(cps, lo, mid)},
                          t \in {CptsToUtf8Range(cps, mid + 1, hi)}} : TRUE

unicode_cpts_to_utf8(cps) == CptsToUtf8Range(cps, 1, Len(cps))

(***************************************************************************)
(* unicode_cpt_from_utf8: decodes the codepoint at 0-based offset of utf8  *)
(* (offset < size).  The result is err, the codepoint and the new offset.  *)
(* Bit(b, m) is (b & m) != 0 for a one-bit mask m; IsCont(b) is            *)
(* (b & 0xc0) == 0x80.                                                     *)
(***************************************************************************)
Bit(b, m) == (b \div m) % 2 = 1
IsCont(b) == b \div 64 = 2
At(utf8, i) == utf8[i + 1]
Dec(c, o) == [err |-> "none", cpt |-> c, offset |-> o]
DecThrow(e, o) == [err |-> e, cpt |-> 0, offset |-> o]

unicode_cpt_from_utf8(utf8, offset) ==
    LET size == Len(utf8)
        b0 == At(utf8, offset)
    IN  IF ~Bit(b0, 128) THEN Dec(b0, offset + 1)
        ELSE IF ~Bit(b0, 64) THEN DecThrow("invalid_character", offset)
        ELSE IF ~Bit(b0, 32) THEN
            IF offset + 1 >= size \/ ~IsCont(At(utf8, offset + 1))
            THEN DecThrow("invalid_character", offset)
            ELSE Dec((b0 % 32) * 64 + (At(utf8, offset + 1) % 64), offset + 2)
        ELSE IF ~Bit(b0, 16) THEN
            IF offset + 2 >= size \/ ~IsCont(At(utf8, offset + 1))
                                  \/ ~IsCont(At(utf8, offset + 2))
            THEN DecThrow("invalid_character", offset)
            ELSE Dec((b0 % 16) * 4096 + (At(utf8, offset + 1) % 64) * 64
                     + (At(utf8, offset + 2) % 64), offset + 3)
        ELSE IF ~Bit(b0, 8) THEN
            IF offset + 3 >= size \/ ~IsCont(At(utf8, offset + 1))
                                  \/ ~IsCont(At(utf8, offset + 2))
                                  \/ ~IsCont(At(utf8, offset + 3))
            THEN DecThrow("invalid_character", offset)
            ELSE Dec((b0 % 8) * 262144 + (At(utf8, offset + 1) % 64) * 4096
                     + (At(utf8, offset + 2) % 64) * 64
                     + (At(utf8, offset + 3) % 64), offset + 4)
        ELSE DecThrow("failed_to_convert", offset)

(***************************************************************************)
(* unicode_cpts_from_utf8: decode until the end of the string; an          *)
(* exception of unicode_cpt_from_utf8 leaves the function with no result.  *)
(***************************************************************************)
\* one round of the while loop; nothing once the offset is at the end or an
\* exception was thrown
CptsFromUtf8Step(utf8, st) ==
    IF st.err # "none" \/ st.offset >= Len(utf8) THEN st
    ELSE LET d == unicode_cpt_from_utf8(utf8, st.offset) IN
         IF d.err # "none" THEN [err |-> d.err, val |-> <<>>, offset |-> st.offset]
         ELSE [err |-> "none", val |-> Append(st.val, d.cpt), offset |-> d.offset]

\* rounds of the loop in order, the count halved at each level
RECURSIVE CptsFromUtf8Steps(_, _, _)
CptsFromUtf8Steps(utf8, st, rounds) ==
    IF st.err # "none" \/ rounds = 0 THEN st
    ELSE IF rounds = 1 THEN CptsFromUtf8Step(utf8, st)
    ELSE CHOOSE end \in {CptsFromUtf8Steps(utf8, half, rounds - rounds \div 2) :
                            half \in {CptsFromUtf8Steps(utf8, st, rounds \div 2)}} : TRUE

\* the loop ends within utf8.size() rounds: each round moves the offset on
unicode_cpts_from_utf8(utf8) ==
    LET end == CptsFromUtf8Steps(utf8, [err |-> "none", val |-> <<>>, offset |-> 0],
                                 Len(utf8))
    IN  IF end.err # "none" THEN Throw(end.err) ELSE Ok(end.val)

(***************************************************************************)
(* Codepoints the model uses; the values are those of the C++ character    *)
(* literals.                                                               *)
(***************************************************************************)
NUL == 0
LF == 10
CR == 13
SPACE == 32
APOS == 39
DIGIT_1 == 49
UPPER_S == 83
LOWER_E == 101
LOWER_L == 108
LOWER_R == 114
LOWER_S == 115
LOWER_T == 116
LOWER_M == 109
LOWER_D == 100
LOWER_V == 118
E_ACUTE == 233
MAX_CODEPOINTS == 1114112

(***************************************************************************)
(* The property tables of unicode-data.cpp, restricted to the codepoints   *)
(* the model uses: the category of a codepoint, the whitespace set and the *)
(* lowercase map.  A codepoint in none of the sets below keeps the value   *)
(* the flag array is initialised with, UNDEFINED.                          *)
(***************************************************************************)
LetterCpts == {UPPER_S, LOWER_D, LOWER_E, LOWER_L, LOWER_M, LOWER_R, LOWER_S,
               LOWER_T, LOWER_V, E_ACUTE}
NumberCpts == {DIGIT_1, 178}
PunctuationCpts == {33, APOS, 161}
SymbolCpts == {169}
SeparatorCpts == {SPACE}
ControlCpts == {NUL, LF, CR}
unicode_set_whitespace == {LF, CR, SPACE}

unicode_ranges_flags(cp) ==
    IF cp \in LetterCpts THEN "LETTER"
    ELSE IF cp \in NumberCpts THEN "NUMBER"
    ELSE IF cp \in PunctuationCpts THEN "PUNCTUATION"
    ELSE IF cp \in SymbolCpts THEN "SYMBOL"
    ELSE IF cp \in SeparatorCpts THEN "SEPARATOR"
    ELSE IF cp \in ControlCpts THEN "CONTROL"
    ELSE "UNDEFINED"

unicode_map_lowercase(cp) == IF 65 <= cp /\ cp <= 90 THEN cp + 32 ELSE cp

(***************************************************************************)
(* codepoint_flags: the category and the whitespace bit (the two parts the *)
(* splitters and the collapse read).                                       *)
(***************************************************************************)
undef == [category |-> "UNDEFINED", is_whitespace |-> FALSE]

unicode_cpt_flags_array(cp) ==
    [category |-> unicode_ranges_flags(cp),
     is_whitespace |-> cp \in unicode_set_whitespace]

unicode_cpt_flags(cp) ==
    IF cp < MAX_CODEPOINTS THEN unicode_cpt_flags_array(cp) ELSE undef

\* unicode_tolower with the lowercase map never consulted
ToLower_Identity(cp) == cp

\* unicode_tolower: the mapped codepoint, or cp itself when the map has none
unicode_tolower(cp) == unicode_map_lowercase(cp)

is_letter(f) == f.category = "LETTER"
is_number(f) == f.category = "NUMBER"
is_undefined(f) == f.category = "UNDEFINED"
is_whitespace(f) == f.is_whitespace

(***************************************************************************)
(* The lambdas of a splitter, for the segment [offset_ini, offset_end) of  *)
(* cpts (positions are 0-based as in the code).                            *)
(***************************************************************************)
_get_cpt(cpts, offset_ini, offset_end, pos) ==
    IF offset_ini <= pos /\ pos < offset_end THEN cpts[pos + 1] ELSE 0

_get_flags(cpts, offset_ini, offset_end, pos) ==
    IF offset_ini <= pos /\ pos < offset_end
    THEN unicode_cpt_flags(cpts[pos + 1]) ELSE undef

\* _add_token(end): the length pushed (when positive), the new _prev_end and
\* the returned length
_add_token(_prev_end, end) ==
    [len |-> end - _prev_end,
     toks |-> IF end - _prev_end > 0 THEN <<end - _prev_end>> ELSE <<>>,
     _prev_end |-> end]

\* the loop variables of a segment: the cursor, _prev_end and bpe_offsets
Emit(st, end) ==
    LET t == _add_token(st._prev_end, end) IN
    [pos |-> st.pos, _prev_end |-> t._prev_end, out |-> st.out \o t.toks]

\* _add_token(end) with its length not added to pos
EmitAdvance_PosKept(st, end) ==
    LET t == _add_token(st._prev_end, end) IN
    [pos |-> st.pos, _prev_end |-> t._prev_end, out |-> st.out \o t.toks]

\* pos += _add_token(end)
EmitAdvance(st, end) ==
    LET t == _add_token(st._prev_end, end) IN
    [pos |-> st.pos + t.len, _prev_end |-> t._prev_end, out |-> st.out \o t.toks]

\* the class tests of the while loops
InClass(cls, f) ==
    CASE cls = "letter" -> is_letter(f)
      [] cls = "number" -> is_number(f)
      [] cls = "other" -> ~(is_whitespace(f) \/ is_letter(f) \/ is_number(f)
                            \/ is_undefined(f))
      [] cls = "whitespace" -> is_whitespace(f)

\* while (InClass(flags(pos))) ++pos
RECURSIVE SkipWhile(_, _, _, _, _)
SkipWhile(cls, cpts, offset_ini, offset_end, pos) ==
    IF InClass(cls, _get_flags(cpts, offset_ini, offset_end, pos))
    THEN SkipWhile(cls, cpts, offset_ini, offset_end, pos + 1)
    ELSE pos

\* while (cpt2 == '\r' || cpt2 == '\n') cpt2 = _get_cpt(++pos)
RECURSIVE SkipNewlines(_, _, _, _)
SkipNewlines(cpts, offset_ini, offset_end, pos) ==
    IF _get_cpt(cpts, offset_ini, offset_end, pos) \in {CR, LF}
    THEN SkipNewlines(cpts, offset_ini, offset_end, pos + 1)
    ELSE pos

IsContraction2(c1) == c1 \in {LOWER_S, LOWER_T, LOWER_M, LOWER_D}
IsContraction3(c1, c2) ==
    \/ c1 = LOWER_R /\ c2 = LOWER_E
    \/ c1 = LOWER_V /\ c2 = LOWER_E
    \/ c1 = LOWER_L /\ c2 = LOWER_L

(***************************************************************************)
(* One iteration of the main loop of unicode_regex_split_custom_gpt2 at    *)
(* cursor pos: the rule the if-chain selects, then its effect on the loop  *)
(* variables.                                                              *)
(***************************************************************************)
Gpt2Rule(cpts, offset_ini, offset_end, pos) ==
    LET cpt == _get_cpt(cpts, offset_ini, offset_end, pos)
        flags == _get_flags(cpts, offset_ini, offset_end, pos)
        cpt_next == _get_cpt(cpts, offset_ini, offset_end, pos + 1)
        cpt_next_next == _get_cpt(cpts, offset_ini, offset_end, pos + 2)
        flags2 == IF cpt = SPACE
                  THEN _get_flags(cpts, offset_ini, offset_end, pos + 1)
                  ELSE flags
        num_whitespaces ==
            SkipWhile("whitespace", cpts, offset_ini, offset_end, pos) - pos
    IN  IF cpt = APOS /\ pos + 1 < offset_end /\ IsContraction2(cpt_next)
        THEN "contraction2"
        ELSE IF cpt = APOS /\ pos + 1 < offset_end /\ pos + 2 < offset_end
                /\ IsContraction3(cpt_next, cpt_next_next)
        THEN "contraction3"
        ELSE IF is_letter(flags2) THEN "letters"
        ELSE IF is_number(flags2) THEN "numbers"
        ELSE IF InClass("other", flags2) THEN "others"
        ELSE IF num_whitespaces > 1
                /\ _get_cpt(cpts, offset_ini, offset_end, pos + num_whitespaces) # 0
        THEN "whitespace_lookahead"
        ELSE IF num_whitespaces > 0 THEN "whitespace"
        ELSE "no_match"

\* pos += (cpt == ' '); while (class) ++pos; _add_token(pos)
RunRule(cls, cpts, offset_ini, offset_end, st) ==
    LET cpt == _get_cpt(cpts, offset_ini, offset_end, st.pos)
        pos1 == st.pos + (IF cpt = SPACE THEN 1 ELSE 0)
        pos2 == SkipWhile(cls, cpts, offset_ini, offset_end, pos1)
    IN  Emit([st EXCEPT !.pos = pos2], pos2)

\* the three whitespace rules and the final "no matches" rule
WhitespaceRule(rule, cpts, offset_ini, offset_end, st) ==
    LET num_whitespaces ==
            SkipWhile("whitespace", cpts, offset_ini, offset_end, st.pos) - st.pos
        pos2 == CASE rule = "whitespace_lookahead" -> st.pos + num_whitespaces - 1
                  [] rule = "whitespace" -> st.pos + num_whitespaces
                  [] rule = "no_match" -> st.pos + 1
    IN  Emit([st EXCEPT !.pos = pos2], pos2)

Gpt2Iter(cpts, offset_ini, offset_end, st) ==
    LET rule == Gpt2Rule(cpts, offset_ini, offset_end, st.pos) IN
    CASE rule = "contraction2" -> EmitAdvance(st, st.pos + 2)
      [] rule = "contraction3" -> EmitAdvance(st, st.pos + 3)
      [] rule = "letters" -> RunRule("letter", cpts, offset_ini, offset_end, st)
      [] rule = "numbers" -> RunRule("number", cpts, offset_ini, offset_end, st)
      [] rule = "others" -> RunRule("other", cpts, offset_ini, offset_end, st)
      [] OTHER -> WhitespaceRule(rule, cpts, offset_ini, offset_end, st)

(***************************************************************************)
(* One iteration of the main loop of unicode_regex_split_custom_llama3.    *)
(***************************************************************************)
\* the last pos + num_whitespaces + 1 at a '\r' or '\n' of the whitespace run,
\* 0 when the run has none
\* the end of the first '\r' or '\n' of the run instead of the last
last_end_r_or_n_First(cpts, offset_ini, offset_end, pos) ==
    LET num_whitespaces ==
            SkipWhile("whitespace", cpts, offset_ini, offset_end, pos) - pos
        ends == {pos + i + 1 : i \in {j \in 0..(num_whitespaces - 1) :
                    _get_cpt(cpts, offset_ini, offset_end, pos + j) \in {CR, LF}}}
    IN  IF ends = {} THEN 0 ELSE CHOOSE e \in ends : \A o \in ends : e <= o

\* the loop of lines 461-469: 0, or the position after the last '\r' or '\n'
\* of the whitespace run at pos
last_end_r_or_n(cpts, offset_ini, offset_end, pos) ==
    LET num_whitespaces ==
            SkipWhile("whitespace", cpts, offset_ini, offset_end, pos) - pos
        ends == {pos + i + 1 : i \in {j \in 0..(num_whitespaces - 1) :
                    _get_cpt(cpts, offset_ini, offset_end, pos + j) \in {CR, LF}}}
    IN  IF ends = {} THEN 0 ELSE CHOOSE e \in ends : \A o \in ends : o <= e

Llama3Rule(cpts, offset_ini, offset_end, pos) ==
    LET cpt == _get_cpt(cpts, offset_ini, offset_end, pos)
        flags == _get_flags(cpts, offset_ini, offset_end, pos)
        cpt_next == unicode_tolower(_get_cpt(cpts, offset_ini, offset_end, pos + 1))
        cpt_next_next ==
            unicode_tolower(_get_cpt(cpts, offset_ini, offset_end, pos + 2))
        flags2 == IF cpt = SPACE
                  THEN _get_flags(cpts, offset_ini, offset_end, pos + 1)
                  ELSE flags
        num_whitespaces ==
            SkipWhile("whitespace", cpts, offset_ini, offset_end, pos) - pos
    IN  IF cpt = APOS /\ pos + 1 < offset_end /\ IsContraction2(cpt_next)
        THEN "contraction2"
        ELSE IF cpt = APOS /\ pos + 1 < offset_end /\ pos + 2 < offset_end
                /\ IsContraction3(cpt_next, cpt_next_next)
        THEN "contraction3"
        ELSE IF ~(cpt = CR \/ cpt = LF \/ is_number(flags))
                /\ (is_letter(flags)
                    \/ is_letter(_get_flags(cpts, offset_ini, offset_end, pos + 1)))
        THEN "letters"
        ELSE IF is_number(flags) THEN "numbers"
        ELSE IF InClass("other", flags2) THEN "others"
        ELSE IF last_end_r_or_n(cpts, offset_ini, offset_end, pos) > 0
        THEN "newlines"
        ELSE IF num_whitespaces > 1
                /\ _get_cpt(cpts, offset_ini, offset_end, pos + num_whitespaces) # 0
        THEN "whitespace_lookahead"
        ELSE IF num_whitespaces > 0 THEN "whitespace"
        ELSE "no_match"

\* pos++; while (letter) pos++; _add_token(pos)
Llama3Letters(cpts, offset_ini, offset_end, st) ==
    LET pos2 == SkipWhile("letter", cpts, offset_ini, offset_end, st.pos + 1)
    IN  Emit([st EXCEPT !.pos = pos2], pos2)

\* while (number) { if (++pos - ini >= 3) { _add_token(pos); ini = pos; } }
RECURSIVE Llama3DigitLoop(_, _, _, _, _)
Llama3DigitLoop(cpts, offset_ini, offset_end, st, ini) ==
    IF is_number(_get_flags(cpts, offset_ini, offset_end, st.pos))
    THEN LET pos1 == st.pos + 1 IN
         IF pos1 - ini >= 3
         THEN Llama3DigitLoop(cpts, offset_ini, offset_end,
                              Emit([st EXCEPT !.pos = pos1], pos1), pos1)
         ELSE Llama3DigitLoop(cpts, offset_ini, offset_end,
                              [st EXCEPT !.pos = pos1], ini)
    ELSE st

\* the digit rule without the _add_token(pos) that follows its loop
Llama3Numbers_NoRemainder(cpts, offset_ini, offset_end, st) ==
    Llama3DigitLoop(cpts, offset_ini, offset_end, st, st.pos)

Llama3Numbers(cpts, offset_ini, offset_end, st) ==
    LET st2 == Llama3DigitLoop(cpts, offset_ini, offset_end, st, st.pos)
    IN  Emit(st2, st2.pos)

\* the symbol run, then while ('\r' or '\n') ++pos, then _add_token(pos)
Llama3Others(cpts, offset_ini, offset_end, st) ==
    LET cpt == _get_cpt(cpts, offset_ini, offset_end, st.pos)
        pos1 == st.pos + (IF cpt = SPACE THEN 1 ELSE 0)
        pos2 == SkipWhile("other", cpts, offset_ini, offset_end, pos1)
        pos3 == SkipNewlines(cpts, offset_ini, offset_end, pos2)
    IN  Emit([st EXCEPT !.pos = pos3], pos3)

\* pos = last_end_r_or_n; _add_token(pos)
Llama3Newlines(cpts, offset_ini, offset_end, st) ==
    LET pos2 == last_end_r_or_n(cpts, offset_ini, offset_end, st.pos)
    IN  Emit([st EXCEPT !.pos = pos2], pos2)

Llama3Iter(cpts, offset_ini, offset_end, st) ==
    LET rule == Llama3Rule(cpts, offset_ini, offset_end, st.pos) IN
    CASE rule = "contraction2" -> EmitAdvance(st, st.pos + 2)
      [] rule = "contraction3" -> EmitAdvance(st, st.pos + 3)
      [] rule = "letters" -> Llama3Letters(cpts, offset_ini, offset_end, st)
      [] rule = "numbers" -> Llama3Numbers(cpts, offset_ini, offset_end, st)
      [] rule = "others" -> Llama3Others(cpts, offset_ini, offset_end, st)
      [] rule = "newlines" -> Llama3Newlines(cpts, offset_ini, offset_end, st)
      [] OTHER -> WhitespaceRule(rule, cpts, offset_ini, offset_end, st)

(***************************************************************************)
(* The loops of a hand-written splitter: over the positions of a segment   *)
(* and over the segments of the input offsets.                             *)
(***************************************************************************)
SplitRule(kind, cpts, offset_ini, offset_end, pos) ==
    IF kind = "gpt2" THEN Gpt2Rule(cpts, offset_ini, offset_end, pos)
    ELSE Llama3Rule(cpts, offset_ini, offset_end, pos)

SplitIter(kind, cpts, offset_ini, offset_end, st) ==
    IF kind = "gpt2" THEN Gpt2Iter(cpts, offset_ini, offset_end, st)
    ELSE Llama3Iter(cpts, offset_ini, offset_end, st)

RECURSIVE SegmentLoop(_, _, _, _, _)
SegmentLoop(kind, cpts, offset_ini, offset_end, st) ==
    IF st.pos < offset_end
    THEN SegmentLoop(kind, cpts, offset_ini, offset_end,
                     SplitIter(kind, cpts, offset_ini, offset_end, st))
    ELSE st.out

RECURSIVE SplitOffsets(_, _, _, _, _)
SplitOffsets(kind, cpts, offsets, start, bpe_offsets) ==
    IF offsets = <<>> THEN bpe_offsets
    ELSE LET offset_ini == start
             offset_end == start + Head(offsets)
         IN  SplitOffsets(kind, cpts, Tail(offsets), offset_end,
                 SegmentLoop(kind, cpts, offset_ini, offset_end,
                     [pos |-> offset_ini, _prev_end |-> offset_ini,
                      out |-> bpe_offsets]))

unicode_regex_split_custom_gpt2(text, offsets) ==
    SplitOffsets("gpt2", unicode_cpts_from_utf8(text).val, offsets, 0, <<>>)

unicode_regex_split_custom_llama3(text, offsets) ==
    SplitOffsets("llama3", unicode_cpts_from_utf8(text).val, offsets, 0, <<>>)

(***************************************************************************)
(* State.  Five groups: the codec loop of unicode_cpts_from_utf8, the      *)
(* construction of the two byte maps, the loops of a hand-written          *)
(* splitter, the driver unicode_regex_split and the loop of                *)
(* unicode_cpts_normalize_nfd.  A specification runs one group and leaves  *)
(* the others idle.                                                        *)
(***************************************************************************)
VARIABLES
    \* codec: the codepoint to encode (-1: none), the string, the cursor and
    \* the result of unicode_cpts_from_utf8; widths records the bytes each
    \* decoded codepoint took (offset after minus offset before)
    c_pc, cp, utf8, offset, result, widths, c_err,
    \* byte maps: the maps still to build, the loop of the current one
    \* (its phase, ch and n) and the two maps
    m_todo, m_phase, ch, n, byte_to_utf8_map, utf8_to_byte_map,
    \* splitter: which splitter, its inputs, the index of the next offset,
    \* the locals start, offset_ini, offset_end, pos, _prev_end, bpe_offsets;
    \* last_rule, last_pos and last_out record the rule of the last iteration
    \* and the cursor and bpe_offsets it started from; iterations counts the
    \* iterations of the main loop in the current segment
    s_pc, s_kind, s_cpts, s_offsets, s_seg, start, offset_ini, offset_end,
    pos, s_prev_end, s_bpe_offsets, last_rule, last_pos, last_out, iterations,
    \* driver: the arguments text and regex_exprs (each pattern held by name,
    \* see RegexUtf8), the locals need_collapse, cpts (d_cpts), text_collapsed,
    \* bpe_offsets, the index of the next pattern, bpe_words, the returned
    \* strings and the exception; last_path records how the last
    \* pattern was handled
    d_pc, text, regex_exprs, need_collapse, d_cpts, text_collapsed, bpe_offsets,
    idx, bpe_words, d_result, d_err, last_path,
    \* normalize_nfd: the argument cpts of the first call (n_cpts), the loop
    \* index i and the vector result of the running call, and the vector the
    \* first call returned (n_first), which is the argument of a second call
    n_pc, n_cpts, n_i, n_result, n_first

codecVars == <<c_pc, cp, utf8, offset, result, widths, c_err>>
mapVars == <<m_todo, m_phase, ch, n, byte_to_utf8_map, utf8_to_byte_map>>
splitVars == <<s_pc, s_kind, s_cpts, s_offsets, s_seg, start, offset_ini,
               offset_end, pos, s_prev_end, s_bpe_offsets, last_rule, last_pos,
               last_out, iterations>>
driverVars == <<d_pc, text, regex_exprs, need_collapse, d_cpts, text_collapsed,
                bpe_offsets, idx, bpe_words, d_result, d_err, last_path>>
nfdVars == <<n_pc, n_cpts, n_i, n_result, n_first>>
vars == <<codecVars, mapVars, splitVars, driverVars, nfdVars>>

CodecIdle ==
    /\ c_pc = "idle" /\ cp = -1 /\ utf8 = <<>> /\ offset = 0
    /\ result = <<>> /\ widths = <<>> /\ c_err = "none"

MapIdle ==
    /\ m_todo = <<>> /\ m_phase = "idle" /\ ch = 0 /\ n = 0
    /\ byte_to_utf8_map = <<>> /\ utf8_to_byte_map = <<>>

SplitIdle ==
    /\ s_pc = "idle" /\ s_kind = "none" /\ s_cpts = <<>> /\ s_offsets = <<>>
    /\ s_seg = 0 /\ start = 0 /\ offset_ini = 0 /\ offset_end = 0 /\ pos = 0
    /\ s_prev_end = 0 /\ s_bpe_offsets = <<>> /\ last_rule = "none"
    /\ last_pos = 0 /\ last_out = <<>> /\ iterations = 0

DriverIdle ==
    /\ d_pc = "idle" /\ text = <<>> /\ regex_exprs = <<>> /\ need_collapse = FALSE
    /\ d_cpts = <<>> /\ text_collapsed = <<>> /\ bpe_offsets = <<>> /\ idx = 0
    /\ bpe_words = <<>> /\ d_result = <<>> /\ d_err = "none"
    /\ last_path = "none"

NfdIdle ==
    /\ n_pc = "idle" /\ n_cpts = <<>> /\ n_i = 0 /\ n_result = <<>>
    /\ n_first = <<>>

(***************************************************************************)
(* The codec.  A run either encodes a codepoint and decodes the bytes, or  *)
(* decodes a byte string.                                                  *)
(***************************************************************************)
CodecSamples == 4100
MaxBytes == 4

CodecBoundaryCpts == {0, 127, 128, 2047, 2048, 55295, 55296, 57343, 57344,
                      65535, 65536, 1114111, 1114112}
CodecCpts ==
    CodecBoundaryCpts \cup
    {k * (MAX_CODEPOINTS \div CodecSamples) : k \in 0..(CodecSamples - 1)}

\* 'A', two continuation bytes, the lead bytes C0 E0 ED F4 and the byte F8
CodecBytes == {65, 128, 160, 192, 224, 237, 244, 248}
CodecStrings == SeqsUpTo(CodecBytes, MaxBytes)

CodecInit ==
    /\ \/ c_pc = "encode" /\ cp \in CodecCpts /\ utf8 = <<>>
       \/ c_pc = "decode" /\ cp = -1 /\ utf8 \in CodecStrings
    /\ offset = 0 /\ result = <<>> /\ widths = <<>> /\ c_err = "none"
    /\ MapIdle /\ SplitIdle /\ DriverIdle /\ NfdIdle

\* unicode_cpt_to_utf8(cp), whose bytes are then decoded
CodecEncode ==
    /\ c_pc = "encode"
    /\ LET r == unicode_cpt_to_utf8(cp) IN
       IF r.err # "none"
       THEN c_pc' = "throw" /\ c_err' = r.err /\ utf8' = utf8
       ELSE c_pc' = "decode" /\ c_err' = c_err /\ utf8' = r.val
    /\ UNCHANGED <<cp, offset, result, widths, mapVars, splitVars, driverVars, nfdVars>>

\* one iteration of the while loop of unicode_cpts_from_utf8
CodecDecodeStep ==
    /\ c_pc = "decode"
    /\ offset < Len(utf8)
    /\ LET d == unicode_cpt_from_utf8(utf8, offset) IN
       IF d.err # "none"
       THEN /\ c_pc' = "throw" /\ c_err' = d.err
            /\ UNCHANGED <<offset, result, widths>>
       ELSE /\ result' = Append(result, d.cpt)
            /\ widths' = Append(widths, d.offset - offset)
            /\ offset' = d.offset
            /\ UNCHANGED <<c_pc, c_err>>
    /\ UNCHANGED <<cp, utf8, mapVars, splitVars, driverVars, nfdVars>>

\* the loop ends and result is returned
CodecDecodeReturn ==
    /\ c_pc = "decode"
    /\ offset >= Len(utf8)
    /\ c_pc' = "done"
    /\ UNCHANGED <<cp, utf8, offset, result, widths, c_err, mapVars, splitVars, driverVars, nfdVars>>

CodecNext == CodecEncode \/ CodecDecodeStep \/ CodecDecodeReturn

SpecCodec == CodecInit /\ [][CodecNext]_vars

(***************************************************************************)
(* The byte maps.  unicode_byte_to_utf8_map and unicode_utf8_to_byte_map   *)
(* each run three seeding loops and one filling loop; either may be built  *)
(* first.  A map is a function: from bytes to strings, from strings to     *)
(* bytes.                                                                  *)
(***************************************************************************)
SeedLo(phase) == CASE phase = "seed1" -> 33 [] phase = "seed2" -> 161
                   [] phase = "seed3" -> 174
SeedHi(phase) == CASE phase = "seed1" -> 126 [] phase = "seed2" -> 172
                   [] phase = "seed3" -> 255
NextPhase(phase) == CASE phase = "seed1" -> "seed2" [] phase = "seed2" -> "seed3"
                      [] phase = "seed3" -> "fill"

\* map[key] = value
MapPut(map, key, value) ==
    IF key \in DOMAIN map THEN [map EXCEPT ![key] = value]
    ELSE [k \in DOMAIN map \cup {key} |-> IF k = key THEN value ELSE map[k]]

\* unicode_cpt_to_utf8(256 + n), the string a filled byte gets in
\* unicode_byte_to_utf8_map
ByteToUtf8FillValue(count) == unicode_cpt_to_utf8(256 + count).val

\* the fill of the reverse map numbering its keys from 257
Utf8ToByteFillKey_OffByOne(count) == unicode_cpt_to_utf8(257 + count).val

\* unicode_cpt_to_utf8(256 + n), the key a filled byte gets in
\* unicode_utf8_to_byte_map
Utf8ToByteFillKey(count) == unicode_cpt_to_utf8(256 + count).val

MapInit ==
    /\ m_todo \in {<<"byte_to_utf8", "utf8_to_byte">>,
                   <<"utf8_to_byte", "byte_to_utf8">>}
    /\ m_phase = "seed1" /\ ch = SeedLo("seed1") /\ n = 0
    /\ byte_to_utf8_map = <<>> /\ utf8_to_byte_map = <<>>
    /\ CodecIdle /\ SplitIdle /\ DriverIdle /\ NfdIdle

\* a seeding loop of unicode_byte_to_utf8_map: map[ch] = unicode_cpt_to_utf8(ch)
ByteToUtf8Seed ==
    /\ m_todo # <<>> /\ Head(m_todo) = "byte_to_utf8"
    /\ m_phase \in {"seed1", "seed2", "seed3"}
    /\ ch <= SeedHi(m_phase)
    /\ byte_to_utf8_map' = MapPut(byte_to_utf8_map, ch, unicode_cpt_to_utf8(ch).val)
    /\ ch' = ch + 1
    /\ UNCHANGED <<m_todo, m_phase, n, utf8_to_byte_map, codecVars, splitVars, driverVars, nfdVars>>

\* a seeding loop of unicode_utf8_to_byte_map: map[unicode_cpt_to_utf8(ch)] = ch
Utf8ToByteSeed ==
    /\ m_todo # <<>> /\ Head(m_todo) = "utf8_to_byte"
    /\ m_phase \in {"seed1", "seed2", "seed3"}
    /\ ch <= SeedHi(m_phase)
    /\ utf8_to_byte_map' = MapPut(utf8_to_byte_map, unicode_cpt_to_utf8(ch).val, ch)
    /\ ch' = ch + 1
    /\ UNCHANGED <<m_todo, m_phase, n, byte_to_utf8_map, codecVars, splitVars, driverVars, nfdVars>>

\* a seeding loop ends; the next loop starts (the filling loop with n = 0)
MapSeedEnd ==
    /\ m_todo # <<>>
    /\ m_phase \in {"seed1", "seed2", "seed3"}
    /\ ch > SeedHi(m_phase)
    /\ m_phase' = NextPhase(m_phase)
    /\ ch' = IF m_phase = "seed3" THEN 0 ELSE SeedLo(NextPhase(m_phase))
    /\ n' = 0
    /\ UNCHANGED <<m_todo, byte_to_utf8_map, utf8_to_byte_map, codecVars, splitVars, driverVars, nfdVars>>

\* the filling loop of unicode_byte_to_utf8_map
ByteToUtf8Fill ==
    /\ m_todo # <<>> /\ Head(m_todo) = "byte_to_utf8"
    /\ m_phase = "fill"
    /\ ch < 256
    /\ IF ch \notin DOMAIN byte_to_utf8_map
       THEN /\ byte_to_utf8_map' = MapPut(byte_to_utf8_map, ch, ByteToUtf8FillValue(n))
            /\ n' = n + 1
       ELSE UNCHANGED <<byte_to_utf8_map, n>>
    /\ ch' = ch + 1
    /\ UNCHANGED <<m_todo, m_phase, utf8_to_byte_map, codecVars, splitVars, driverVars, nfdVars>>

\* the filling loop of unicode_utf8_to_byte_map
Utf8ToByteFill ==
    /\ m_todo # <<>> /\ Head(m_todo) = "utf8_to_byte"
    /\ m_phase = "fill"
    /\ ch < 256
    /\ IF unicode_cpt_to_utf8(ch).val \notin DOMAIN utf8_to_byte_map
       THEN /\ utf8_to_byte_map' = MapPut(utf8_to_byte_map, Utf8ToByteFillKey(n), ch)
            /\ n' = n + 1
       ELSE UNCHANGED <<utf8_to_byte_map, n>>
    /\ ch' = ch + 1
    /\ UNCHANGED <<m_todo, m_phase, byte_to_utf8_map, codecVars, splitVars, driverVars, nfdVars>>

\* the map is returned; the other map, if not built yet, is built next
MapReturn ==
    /\ m_todo # <<>>
    /\ m_phase = "fill"
    /\ ch >= 256
    /\ m_todo' = Tail(m_todo)
    /\ m_phase' = IF Tail(m_todo) = <<>> THEN "done" ELSE "seed1"
    /\ ch' = IF Tail(m_todo) = <<>> THEN ch ELSE SeedLo("seed1")
    /\ n' = IF Tail(m_todo) = <<>> THEN n ELSE 0
    /\ UNCHANGED <<byte_to_utf8_map, utf8_to_byte_map, codecVars, splitVars, driverVars, nfdVars>>

MapNext ==
    \/ ByteToUtf8Seed \/ Utf8ToByteSeed \/ MapSeedEnd
    \/ ByteToUtf8Fill \/ Utf8ToByteFill \/ MapReturn

SpecByteMap == MapInit /\ [][MapNext]_vars

\* unicode_byte_to_utf8(byte) and unicode_utf8_to_byte(utf8): map.at(key),
\* which throws std::out_of_range for a missing key
unicode_byte_to_utf8(byte) ==
    IF byte \in DOMAIN byte_to_utf8_map THEN Ok(byte_to_utf8_map[byte])
    ELSE Throw("out_of_range")

unicode_utf8_to_byte(s) ==
    IF s \in DOMAIN utf8_to_byte_map THEN [err |-> "none", val |-> utf8_to_byte_map[s]]
    ELSE [err |-> "out_of_range", val |-> 0]

(***************************************************************************)
(* The loops of a hand-written splitter, one action per rule of the main   *)
(* loop.  The inputs are a codepoint sequence and an offset list whose sum *)
(* is its length.  The sequences are short ones over SplitCpts and over    *)
(* CaseCpts (an upper-case letter and the first value past the flag table, *)
(* which the decoder can return) and longer ones over RunCpts.  The regex  *)
(* fallback can leave offsets of 0; they are drawn for the empty text.     *)
(***************************************************************************)
MaxLen == 3
MaxRun == 7
MaxSegments == 2

SplitCpts == {NUL, LF, SPACE, APOS, DIGIT_1, LOWER_L, LOWER_S}
CaseCpts == {SPACE, APOS, UPPER_S, LOWER_S, MAX_CODEPOINTS}
RunCpts == {DIGIT_1, LOWER_S}
NewlineCpts == {CR, LF, SPACE, LOWER_S}
SplitTexts == SeqsUpTo(SplitCpts, MaxLen) \cup SeqsUpTo(CaseCpts, MaxLen)
              \cup SeqsUpTo(RunCpts, MaxRun) \cup SeqsUpTo(NewlineCpts, MaxLen)
OffsetLists(len) ==
    IF len = 0 THEN SeqsUpTo({0}, MaxSegments)
    ELSE {o \in SeqsUpTo(1..len, MaxSegments) : SumSeq(o) = len}

SplitInit ==
    /\ s_pc = "segment"
    /\ s_kind \in {"gpt2", "llama3"}
    /\ s_cpts \in SplitTexts
    /\ s_offsets \in OffsetLists(Len(s_cpts))
    /\ s_seg = 1 /\ start = 0 /\ offset_ini = 0 /\ offset_end = 0 /\ pos = 0
    /\ s_prev_end = 0 /\ s_bpe_offsets = <<>> /\ last_rule = "none"
    /\ last_pos = 0 /\ last_out = <<>> /\ iterations = 0
    /\ CodecIdle /\ MapIdle /\ DriverIdle /\ NfdIdle

\* for (auto offset : offsets): the locals of the next segment
SplitNextSegment ==
    /\ s_pc = "segment"
    /\ s_seg <= Len(s_offsets)
    /\ offset_ini' = start
    /\ offset_end' = start + s_offsets[s_seg]
    /\ start' = start + s_offsets[s_seg]
    /\ pos' = start
    /\ s_prev_end' = start
    /\ s_seg' = s_seg + 1
    /\ s_pc' = "loop"
    /\ last_rule' = "none"
    /\ iterations' = 0
    /\ UNCHANGED <<s_kind, s_cpts, s_offsets, s_bpe_offsets, last_pos, last_out,
                   codecVars, mapVars, driverVars, nfdVars>>

\* one iteration of the main loop that takes the given rule
SplitIteration(kind, rule) ==
    /\ s_pc = "loop"
    /\ s_kind = kind
    /\ pos < offset_end
    /\ SplitRule(kind, s_cpts, offset_ini, offset_end, pos) = rule
    /\ LET st == SplitIter(kind, s_cpts, offset_ini, offset_end,
                           [pos |-> pos, _prev_end |-> s_prev_end,
                            out |-> s_bpe_offsets])
       IN  /\ pos' = st.pos
           /\ s_prev_end' = st._prev_end
           /\ s_bpe_offsets' = st.out
    /\ last_rule' = rule
    /\ last_pos' = pos
    /\ last_out' = s_bpe_offsets
    /\ iterations' = iterations + 1
    /\ UNCHANGED <<s_pc, s_kind, s_cpts, s_offsets, s_seg, start, offset_ini,
                   offset_end, codecVars, mapVars, driverVars, nfdVars>>

Gpt2Contraction2 ==
    /\ s_kind = "gpt2"
    /\ SplitIteration("gpt2", "contraction2")
Gpt2Contraction3 ==
    /\ s_kind = "gpt2"
    /\ SplitIteration("gpt2", "contraction3")
Gpt2Letters ==
    /\ s_kind = "gpt2"
    /\ SplitIteration("gpt2", "letters")
Gpt2Numbers ==
    /\ s_kind = "gpt2"
    /\ SplitIteration("gpt2", "numbers")
Gpt2Others ==
    /\ s_kind = "gpt2"
    /\ SplitIteration("gpt2", "others")
Gpt2WhitespaceLookahead ==
    /\ s_kind = "gpt2"
    /\ SplitIteration("gpt2", "whitespace_lookahead")
Gpt2Whitespace ==
    /\ s_kind = "gpt2"
    /\ SplitIteration("gpt2", "whitespace")
Gpt2NoMatch ==
    /\ s_kind = "gpt2"
    /\ SplitIteration("gpt2", "no_match")
Llama3Contraction2 ==
    /\ s_kind = "llama3"
    /\ SplitIteration("llama3", "contraction2")
Llama3Contraction3 ==
    /\ s_kind = "llama3"
    /\ SplitIteration("llama3", "contraction3")
Llama3LettersRule ==
    /\ s_kind = "llama3"
    /\ SplitIteration("llama3", "letters")
Llama3NumbersRule ==
    /\ s_kind = "llama3"
    /\ SplitIteration("llama3", "numbers")
Llama3OthersRule ==
    /\ s_kind = "llama3"
    /\ SplitIteration("llama3", "others")
Llama3NewlinesRule ==
    /\ s_kind = "llama3"
    /\ SplitIteration("llama3", "newlines")
Llama3WhitespaceLookahead ==
    /\ s_kind = "llama3"
    /\ SplitIteration("llama3", "whitespace_lookahead")
Llama3Whitespace ==
    /\ s_kind = "llama3"
    /\ SplitIteration("llama3", "whitespace")
Llama3NoMatch ==
    /\ s_kind = "llama3"
    /\ SplitIteration("llama3", "no_match")

\* the main loop of the segment ends
SplitEndSegment ==
    /\ s_pc = "loop"
    /\ pos >= offset_end
    /\ s_pc' = "segment"
    /\ UNCHANGED <<s_kind, s_cpts, s_offsets, s_seg, start, offset_ini,
                   offset_end, pos, s_prev_end, s_bpe_offsets, last_rule,
                   last_pos, last_out, iterations, codecVars, mapVars, driverVars, nfdVars>>

\* return bpe_offsets
SplitReturn ==
    /\ s_pc = "segment"
    /\ s_seg > Len(s_offsets)
    /\ s_pc' = "done"
    /\ UNCHANGED <<s_kind, s_cpts, s_offsets, s_seg, start, offset_ini,
                   offset_end, pos, s_prev_end, s_bpe_offsets, last_rule,
                   last_pos, last_out, iterations, codecVars, mapVars, driverVars, nfdVars>>

SplitNext ==
    \/ SplitNextSegment \/ SplitEndSegment \/ SplitReturn
    \/ Gpt2Contraction2 \/ Gpt2Contraction3 \/ Gpt2Letters \/ Gpt2Numbers
    \/ Gpt2Others \/ Gpt2WhitespaceLookahead \/ Gpt2Whitespace \/ Gpt2NoMatch
    \/ Llama3Contraction2 \/ Llama3Contraction3 \/ Llama3LettersRule
    \/ Llama3NumbersRule \/ Llama3OthersRule \/ Llama3NewlinesRule
    \/ Llama3WhitespaceLookahead \/ Llama3Whitespace \/ Llama3NoMatch

SpecSplit == SplitInit /\ [][SplitNext]_vars

(***************************************************************************)
(* The regex fallback.  std::regex and std::wregex are the library's.  A    *)
(* run of the regex iterator over a segment is a list of matches (position *)
(* and length inside the segment), in ascending order and not overlapping. *)
(* For a pattern that cannot match the empty string what it matches is not *)
(* computed: any list of matches that are not empty may result.  For \s*,  *)
(* the pattern of the model that matches the empty string, the iterator's  *)
(* matches are computed: every maximal run of whitespace, and an empty     *)
(* match at every position where no whitespace starts, the end included.   *)
(***************************************************************************)
MaxMatches == 1

MatchLists(len) ==
    {ms \in SeqsUpTo([position : 0..len, length : 0..len], MaxMatches) :
        /\ \A i \in 1..Len(ms) : ms[i].position + ms[i].length <= len
        /\ \A i \in 1..(Len(ms) - 1) :
              /\ ms[i].position + ms[i].length <= ms[i + 1].position
              /\ ms[i + 1].position > ms[i].position \/ ms[i + 1].length > 0}

\* the patterns of the model that match the empty string: \s*
MatchesEmpty(regex_expr) == regex_expr = <<92, 115, 42>>

\* what \s matches in the classic locale: tab, LF, VT, FF, CR and space
RegexSpace == {9, 10, 11, 12, 13, 32}

\* the matches of \s* the iterator yields over seg when it searches from p
RECURSIVE SpaceStarMatches(_, _)
SpaceStarMatches(seg, p) ==
    IF p > Len(seg) THEN <<>>
    ELSE LET ends == {q \in p..Len(seg) :
                         \A k \in (p + 1)..q : seg[k] \in RegexSpace}
             run == (CHOOSE q \in ends : \A o \in ends : o <= q) - p
         IN  IF run > 0
             THEN <<[position |-> p, length |-> run]>>
                  \o SpaceStarMatches(seg, p + run)
             ELSE <<[position |-> p, length |-> 0]>>
                  \o SpaceStarMatches(seg, p + 1)

\* the lists of matches the iterator may yield for the pattern over seg
RegexMatches(regex_expr, seg) ==
    IF MatchesEmpty(regex_expr) THEN {SpaceStarMatches(seg, 0)}
    ELSE {ms \in MatchLists(Len(seg)) : \A i \in 1..Len(ms) : ms[i].length > 0}

\* the body of the for loop of unicode_regex_split_stl for one offset: the
\* offsets pushed for the matches the iterator yields
RECURSIVE StlMatches(_, _)
StlMatches(matches, start_idx) ==
    IF matches = <<>> THEN [out |-> <<>>, start_idx |-> start_idx]
    ELSE LET match == Head(matches)
             gap == IF match.position > start_idx
                    THEN <<match.position - start_idx>> ELSE <<>>
             rest == StlMatches(Tail(matches), match.position + match.length)
         IN  [out |-> gap \o <<match.length>> \o rest.out,
              start_idx |-> rest.start_idx]

\* the segment loop body with the push of the rest after the last match lost
StlSegment_NoTail(offset_len, matches) == StlMatches(matches, 0).out

\* the for loop body for an offset of offset_len
StlSegment(offset_len, matches) ==
    LET m == StlMatches(matches, 0) IN
    m.out \o (IF m.start_idx < offset_len THEN <<offset_len - m.start_idx>>
              ELSE <<>>)

\* the iterator run once over the whole text instead of once per offset
unicode_regex_split_stl_OneSegment(txt, regex_expr, offsets) ==
    {StlSegment(SumSeq(offsets), ms) :
        ms \in RegexMatches(regex_expr, SubSeq(txt, 1, SumSeq(offsets)))}

\* the for loop over the offsets, from the element start of the text
RECURSIVE StlLoop(_, _, _, _)
StlLoop(txt, regex_expr, offsets, from) ==
    IF offsets = <<>> THEN {<<>>}
    ELSE LET offset_len == Head(offsets)
             seg == SubSeq(txt, from + 1, from + offset_len)
             first == {StlSegment(offset_len, ms) :
                          ms \in RegexMatches(regex_expr, seg)}
             rest == StlLoop(txt, regex_expr, Tail(offsets), from + offset_len)
         IN  {f \o r : f \in first, r \in rest}

\* unicode_regex_split_stl: every list it can return for the given offsets,
\* one choice of matches per segment
unicode_regex_split_stl(txt, regex_expr, offsets) ==
    StlLoop(txt, regex_expr, offsets, 0)

(***************************************************************************)
(* The patterns.  A pattern is held in the state by a name and stands for  *)
(* the bytes RegexUtf8 gives: the three literals unicode_regex_split_custom*)
(* compares with, and four short patterns (with a category and ASCII only, *)
(* without a category, with \p{N} and the letter U+00E9, with \p{S} and    *)
(* U+00E9).                                                                *)
(***************************************************************************)
\* 's|'t|'re|'ve|'m|'ll|'d| ?\p{L}+| ?\p{N}+| ?[^\s\p{L}\p{N}]+|\s+(?!\S)
GPT2_REGEX ==
    <<39, 115, 124, 39, 116, 124, 39, 114, 101, 124, 39, 118, 101, 124, 39,
      109, 124, 39, 108, 108, 124, 39, 100, 124, 32, 63, 92, 112, 123, 76,
      125, 43, 124, 32, 63, 92, 112, 123, 78, 125, 43, 124, 32, 63, 91, 94,
      92, 115, 92, 112, 123, 76, 125, 92, 112, 123, 78, 125, 93, 43, 124,
      92, 115, 43, 40, 63, 33, 92, 83, 41>>

\* (?i:'s|'t|'re|'ve|'m|'ll|'d)|[^\r\n\p{L}\p{N}]?\p{L}+|\p{N}{1,3}|
\*  ?[^\s\p{L}\p{N}]+[\r\n]*|\s*[\r\n]+|\s+(?!\S)|\s+
LLAMA3_REGEX_I ==
    <<40, 63, 105, 58, 39, 115, 124, 39, 116, 124, 39, 114, 101, 124, 39,
      118, 101, 124, 39, 109, 124, 39, 108, 108, 124, 39, 100, 41, 124, 91,
      94, 92, 114, 92, 110, 92, 112, 123, 76, 125, 92, 112, 123, 78, 125,
      93, 63, 92, 112, 123, 76, 125, 43, 124, 92, 112, 123, 78, 125, 123,
      49, 44, 51, 125, 124, 32, 63, 91, 94, 92, 115, 92, 112, 123, 76, 125,
      92, 112, 123, 78, 125, 93, 43, 91, 92, 114, 92, 110, 93, 42, 124, 92,
      115, 42, 91, 92, 114, 92, 110, 93, 43, 124, 92, 115, 43, 40, 63, 33,
      92, 83, 41, 124, 92, 115, 43>>

\* (?:'[sS]|'[tT]|'[rR][eE]|'[vV][eE]|'[mM]|'[lL][lL]|'[dD])|
\* [^\r\n\p{L}\p{N}]?\p{L}+|\p{N}{1,3}| ?[^\s\p{L}\p{N}]+[\r\n]*|\s*[\r\n]+|
\* \s+(?!\S)|\s+
LLAMA3_REGEX_C ==
    <<40, 63, 58, 39, 91, 115, 83, 93, 124, 39, 91, 116, 84, 93, 124, 39,
      91, 114, 82, 93, 91, 101, 69, 93, 124, 39, 91, 118, 86, 93, 91, 101,
      69, 93, 124, 39, 91, 109, 77, 93, 124, 39, 91, 108, 76, 93, 91, 108,
      76, 93, 124, 39, 91, 100, 68, 93, 41, 124, 91, 94, 92, 114, 92, 110,
      92, 112, 123, 76, 125, 92, 112, 123, 78, 125, 93, 63, 92, 112, 123,
      76, 125, 43, 124, 92, 112, 123, 78, 125, 123, 49, 44, 51, 125, 124,
      32, 63, 91, 94, 92, 115, 92, 112, 123, 76, 125, 92, 112, 123, 78,
      125, 93, 43, 91, 92, 114, 92, 110, 93, 42, 124, 92, 115, 42, 91, 92,
      114, 92, 110, 93, 43, 124, 92, 115, 43, 40, 63, 33, 92, 83, 41, 124,
      92, 115, 43>>

RegexUtf8(name) ==
    CASE name = "GPT2" -> GPT2_REGEX
      [] name = "LLAMA3_I" -> LLAMA3_REGEX_I
      [] name = "LLAMA3_C" -> LLAMA3_REGEX_C
      [] name = "\\p{L}+" -> <<92, 112, 123, 76, 125, 43>>
      [] name = "\\s+" -> <<92, 115, 43>>
      [] name = "\\s*" -> <<92, 115, 42>>
      [] name = "\\p{N}<U+00E9>" -> <<92, 112, 123, 78, 125, 195, 169>>
      [] name = "\\p{S}<U+00E9>" -> <<92, 112, 123, 83, 125, 195, 169>>

Patterns == {"GPT2", "LLAMA3_I", "LLAMA3_C", "\\p{L}+", "\\s+", "\\s*",
             "\\p{N}<U+00E9>", "\\p{S}<U+00E9>"}

\* the keys of k_ucat_enum: \p{N}, \p{L}, \p{P}
k_ucat_enum == {<<92, 112, 123, 78, 125>>, <<92, 112, 123, 76, 125>>,
                <<92, 112, 123, 80, 125>>}

\* std::string::npos != s.find(sub)
Find(s, sub) ==
    \E i \in 1..(Len(s) - Len(sub) + 1) : SubSeq(s, i, i + Len(sub) - 1) = sub

UsesCategory(regex_expr) == {ucat \in k_ucat_enum : Find(regex_expr, ucat)} # {}

\* the dispatch of unicode_regex_split_custom; an unknown pattern leaves
\* bpe_offsets empty
unicode_regex_split_custom(txt, regex_expr, offsets) ==
    IF regex_expr = GPT2_REGEX
    THEN unicode_regex_split_custom_gpt2(txt, offsets)
    ELSE IF regex_expr = LLAMA3_REGEX_I \/ regex_expr = LLAMA3_REGEX_C
    THEN unicode_regex_split_custom_llama3(txt, offsets)
    ELSE <<>>

\* the collapsed text: one byte per codepoint
\* every codepoint of one byte kept as is, not only those below 128
CollapsedByte_KeepsLatin1(c) ==
    IF c < 256 THEN c
    ELSE LET cpt_flag == unicode_cpt_flags(c).category IN
         IF cpt_flag = "NUMBER" THEN 209
         ELSE IF cpt_flag = "LETTER" THEN 210
         ELSE IF cpt_flag = "PUNCTUATION" THEN 211
         ELSE 208

CollapsedByte(c) ==
    IF c < 128 THEN c
    ELSE LET cpt_flag == unicode_cpt_flags(c).category IN
         IF cpt_flag = "NUMBER" THEN 209
         ELSE IF cpt_flag = "LETTER" THEN 210
         ELSE IF cpt_flag = "PUNCTUATION" THEN 211
         ELSE 208

Collapse(codepoints) == [i \in 1..Len(codepoints) |-> CollapsedByte(codepoints[i])]

\* unicode_wstring_from_utf8: std::wstring_convert over codecvt_utf8 with a
\* 32-bit wchar_t gives one element per codepoint of a well-formed string and
\* throws std::range_error for any other string
unicode_wstring_from_utf8(str) ==
    LET d == unicode_cpts_from_utf8(str) IN
    IF d.err = "none"
       /\ \A i \in 1..Len(d.val) :
             d.val[i] < MAX_CODEPOINTS /\ ~(55296 <= d.val[i] /\ d.val[i] <= 57343)
       /\ unicode_cpts_to_utf8(d.val) = Ok(str)
    THEN Ok(d.val) ELSE Throw("range_error")

\* the last loop of unicode_regex_split with start never advanced
RECURSIVE Materialize_StartStuck(_, _, _)
Materialize_StartStuck(codepoints, offsets, from) ==
    IF offsets = <<>> THEN Ok(<<>>)
    ELSE LET word == unicode_cpts_to_utf8(
                         SubSeq(codepoints, from + 1, from + Head(offsets)))
         IN  IF word.err # "none" THEN Throw(word.err)
             ELSE LET rest == Materialize_StartStuck(codepoints, Tail(offsets), from)
                  IN  IF rest.err # "none" THEN Throw(rest.err)
                      ELSE Ok(<<word.val>> \o rest.val)

\* the last loop of unicode_regex_split: one string per offset, the encodings
\* of cpts[start .. start + offset)
RECURSIVE Materialize(_, _, _)
Materialize(codepoints, offsets, from) ==
    IF offsets = <<>> THEN Ok(<<>>)
    ELSE LET word == unicode_cpts_to_utf8(
                         SubSeq(codepoints, from + 1, from + Head(offsets)))
         IN  IF word.err # "none" THEN Throw(word.err)
             ELSE LET rest == Materialize(codepoints, Tail(offsets),
                                          from + Head(offsets))
                  IN  IF rest.err # "none" THEN Throw(rest.err)
                      ELSE Ok(<<word.val>> \o rest.val)

\* the map unicode_byte_to_utf8_map returns: the three seeded ranges, then
\* the filling loop
ByteToUtf8FillStep(st, byte) ==
    IF byte \notin DOMAIN st.map
    THEN [map |-> MapPut(st.map, byte, ByteToUtf8FillValue(st.n)), n |-> st.n + 1]
    ELSE st

\* the rounds lo..hi of the filling loop in order, the range halved at each
\* level
RECURSIVE ByteToUtf8FillLoop(_, _, _)
ByteToUtf8FillLoop(st, lo, hi) ==
    IF lo = hi THEN ByteToUtf8FillStep(st, lo)
    ELSE LET mid == (lo + hi) \div 2 IN
         CHOOSE end \in {ByteToUtf8FillLoop(half, mid + 1, hi) :
                            half \in {ByteToUtf8FillLoop(st, lo, mid)}} : TRUE

unicode_byte_to_utf8_map ==
    ByteToUtf8FillLoop(
        [map |-> [b \in (33..126) \cup (161..172) \cup (174..255)
                     |-> unicode_cpt_to_utf8(b).val],
         n |-> 0],
        0, 255).map

\* unicode_byte_encoding_process: each word decoded and encoded again, then
\* each of its bytes replaced by the string the byte map gives
RECURSIVE EncodeBytes(_)
EncodeBytes(bytes) ==
    IF bytes = <<>> THEN <<>>
    ELSE unicode_byte_to_utf8_map[Head(bytes)] \o EncodeBytes(Tail(bytes))

RECURSIVE unicode_byte_encoding_process(_)
unicode_byte_encoding_process(words) ==
    IF words = <<>> THEN Ok(<<>>)
    ELSE LET utf_word == unicode_cpts_from_utf8(Head(words)) IN
         IF utf_word.err # "none" THEN Throw(utf_word.err)
         ELSE LET text_utf == unicode_cpts_to_utf8(utf_word.val) IN
              IF text_utf.err # "none" THEN Throw(text_utf.err)
              ELSE LET rest == unicode_byte_encoding_process(Tail(words)) IN
                   IF rest.err # "none" THEN Throw(rest.err)
                   ELSE Ok(<<EncodeBytes(text_utf.val)>> \o rest.val)

(***************************************************************************)
(* The driver unicode_regex_split, one action per step: the decoding and   *)
(* the collapse, each pattern of the list (the hand-written splitter, or   *)
(* the fallback with its outcomes), the strings of the final offsets and   *)
(* the byte encoding.  An exception ends the call in "throw".              *)
(***************************************************************************)
MaxText == 2
MaxPatterns == 2
MaxOffsets == 3

DriverCpts == {SPACE, E_ACUTE}
\* a stray continuation byte, the overlong C0 80, F4 90 80 80 (0x110000),
\* two words with a space between them, and a number, a punctuation mark and
\* a symbol above 127
SpecialTexts ==
    {<<128>>, <<192, 128>>, <<244, 144, 128, 128>>,
     unicode_cpts_to_utf8(<<E_ACUTE, SPACE, E_ACUTE>>).val,
     unicode_cpts_to_utf8(<<178, 161, 169>>).val}
DriverTexts ==
    {unicode_cpts_to_utf8(c).val : c \in SeqsUpTo(DriverCpts, MaxText)}
    \cup SpecialTexts

\* the lists of patterns: at most MaxPatterns patterns, at most one of them
\* outside StagePatterns
StagePatterns == {"GPT2", "\\s+"}
PatternLists ==
    {l \in SeqsUpTo(Patterns, MaxPatterns) :
        Cardinality({i \in DOMAIN l : l[i] \notin StagePatterns}) <= 1}

DriverInit ==
    /\ d_pc = "start"
    /\ text \in DriverTexts
    /\ regex_exprs \in PatternLists
    /\ need_collapse = FALSE /\ d_cpts = <<>> /\ text_collapsed = <<>>
    /\ bpe_offsets = <<>> /\ idx = 0 /\ bpe_words = <<>> /\ d_result = <<>>
    /\ d_err = "none" /\ last_path = "none"
    /\ CodecIdle /\ MapIdle /\ SplitIdle /\ NfdIdle

DriverThrow(e) ==
    /\ d_pc' = "throw"
    /\ d_err' = e

\* need_collapse, cpts, text_collapsed and the first bpe_offsets
DriverDecode ==
    /\ d_pc = "start"
    /\ LET collapse == \E i \in 1..Len(regex_exprs) :
                           UsesCategory(RegexUtf8(regex_exprs[i]))
           d == unicode_cpts_from_utf8(text)
       IN  /\ need_collapse' = collapse
           /\ IF d.err # "none"
              THEN /\ DriverThrow(d.err)
                   /\ UNCHANGED <<d_cpts, text_collapsed, bpe_offsets, idx>>
              ELSE /\ d_cpts' = d.val
                   /\ text_collapsed' = IF collapse THEN Collapse(d.val) ELSE <<>>
                   /\ bpe_offsets' = <<Len(d.val)>>
                   /\ idx' = 1
                   /\ d_pc' = "patterns"
                   /\ d_err' = d_err
    /\ UNCHANGED <<text, regex_exprs, bpe_words, d_result, last_path,
                   codecVars, mapVars, splitVars, nfdVars>>

\* the pattern the loop is at, and what unicode_regex_split_custom returns
regex_expr == RegexUtf8(regex_exprs[idx])
tmp == unicode_regex_split_custom(text, regex_expr, bpe_offsets)
use_collapsed == UsesCategory(regex_expr)
wregex == unicode_wstring_from_utf8(regex_expr)

AtPattern == d_pc = "patterns" /\ idx <= Len(regex_exprs)

\* the loop goes on with the given offsets
NextPattern(path, offsets) ==
    /\ bpe_offsets' = offsets
    /\ idx' = idx + 1
    /\ last_path' = path
    /\ UNCHANGED <<d_pc, d_err, text, regex_exprs, need_collapse, d_cpts,
                   text_collapsed, bpe_words, d_result, codecVars, mapVars,
                   splitVars, nfdVars>>

\* the call ends with an exception thrown while handling the pattern
PatternThrows(path, e) ==
    /\ DriverThrow(e)
    /\ last_path' = path
    /\ UNCHANGED <<text, regex_exprs, need_collapse, d_cpts, text_collapsed,
                   bpe_offsets, idx, bpe_words, d_result, codecVars, mapVars,
                   splitVars, nfdVars>>

\* if (!tmp.empty()) { bpe_offsets = std::move(tmp); continue; }
DriverCustom ==
    /\ AtPattern
    /\ tmp # <<>>
    /\ NextPattern("custom", tmp)

\* the fallback is reached: the hand-written splitters returned nothing
AtFallback == AtPattern /\ tmp = <<>>

\* the sanity check letting the codepoints of one byte through
NonAscii_Above255(cpts_regex) == {i \in 1..Len(cpts_regex) : cpts_regex[i] >= 256}

\* the sanity check of a pattern with a category: the codepoints >= 128 of
\* the decoded pattern
NonAscii(cpts_regex) == {i \in 1..Len(cpts_regex) : cpts_regex[i] >= 128}

\* the sanity check finds no codepoint >= 128
CollapsedAccepted ==
    /\ AtFallback
    /\ use_collapsed
    /\ \E cpts_regex \in {unicode_cpts_from_utf8(regex_expr)} :
          cpts_regex.err = "none" /\ NonAscii(cpts_regex.val) = {}

\* a codepoint >= 128 in the pattern (or its decoding failing) ends the call
DriverCollapsedReject ==
    /\ AtFallback
    /\ use_collapsed
    /\ \E cpts_regex \in {unicode_cpts_from_utf8(regex_expr)} :
          /\ cpts_regex.err # "none" \/ NonAscii(cpts_regex.val) # {}
          /\ PatternThrows("collapsed",
                 IF cpts_regex.err # "none" THEN cpts_regex.err
                 ELSE "categories_and_non_ascii")

\* std::regex throws std::regex_error for the collapsed pattern
DriverCollapsedRegexError ==
    /\ CollapsedAccepted
    /\ PatternThrows("collapsed", "failed_to_process_regex")

\* unicode_regex_split_stl over text_collapsed
DriverCollapsedSplit ==
    /\ CollapsedAccepted
    /\ \E out \in unicode_regex_split_stl(text_collapsed, regex_expr, bpe_offsets) :
          /\ Len(out) <= MaxOffsets
          /\ NextPattern("collapsed", out)

\* both conversions to a wide string succeed
WideAccepted ==
    /\ AtFallback
    /\ ~use_collapsed
    /\ unicode_wstring_from_utf8(text).err = "none"
    /\ wregex.err = "none"

\* unicode_wstring_from_utf8 throws for the text or for the pattern
DriverWideRangeError ==
    /\ AtFallback
    /\ ~use_collapsed
    /\ \/ unicode_wstring_from_utf8(text).err # "none"
       \/ wregex.err # "none"
    /\ PatternThrows("wide", "range_error")

\* std::wregex throws std::regex_error for the pattern
DriverWideRegexError ==
    /\ WideAccepted
    /\ PatternThrows("wide", "failed_to_process_regex")

\* unicode_regex_split_stl over wtext, whose elements are cpts once the
\* conversion of the text has succeeded
DriverWideSplit ==
    /\ WideAccepted
    /\ \E out \in unicode_regex_split_stl(d_cpts, regex_expr, bpe_offsets) :
          /\ Len(out) <= MaxOffsets
          /\ NextPattern("wide", out)

\* the strings of the final offsets
DriverMaterialize ==
    /\ d_pc = "patterns"
    /\ idx > Len(regex_exprs)
    /\ LET words == Materialize(d_cpts, bpe_offsets, 0) IN
       IF words.err # "none"
       THEN DriverThrow(words.err) /\ bpe_words' = bpe_words
       ELSE d_pc' = "encode" /\ d_err' = d_err /\ bpe_words' = words.val
    /\ UNCHANGED <<text, regex_exprs, need_collapse, d_cpts, text_collapsed,
                   bpe_offsets, idx, d_result, last_path, codecVars,
                   mapVars, splitVars, nfdVars>>

\* return unicode_byte_encoding_process(bpe_words)
DriverByteEncode ==
    /\ d_pc = "encode"
    /\ LET encoded == unicode_byte_encoding_process(bpe_words) IN
       IF encoded.err # "none"
       THEN DriverThrow(encoded.err) /\ d_result' = d_result
       ELSE d_pc' = "done" /\ d_err' = d_err /\ d_result' = encoded.val
    /\ UNCHANGED <<text, regex_exprs, need_collapse, d_cpts, text_collapsed,
                   bpe_offsets, idx, bpe_words, last_path, codecVars,
                   mapVars, splitVars, nfdVars>>

Next ==
    \/ DriverDecode \/ DriverCustom
    \/ DriverCollapsedReject \/ DriverCollapsedRegexError \/ DriverCollapsedSplit
    \/ DriverWideRangeError \/ DriverWideRegexError \/ DriverWideSplit
    \/ DriverMaterialize \/ DriverByteEncode

Init == DriverInit

Spec == Init /\ [][Next]_vars

(***************************************************************************)
(* unicode_cpts_normalize_nfd.  The table unicode_ranges_nfd is data of    *)
(* unicode-data.cpp: its first entry {0, 0, 0}, the ranges of the Latin-1  *)
(* letters with a diacritic and the first range of the Hangul syllables    *)
(* stand for it, in ascending order of first.                              *)
(***************************************************************************)
range_nfd(first, last, nfd) == [first |-> first, last |-> last, nfd |-> nfd]

unicode_ranges_nfd ==
    << range_nfd(0, 0, 0),
       range_nfd(192, 197, 65),
       range_nfd(199, 199, 67),
       range_nfd(200, 203, 69),
       range_nfd(224, 229, 97),
       range_nfd(231, 231, 99),
       range_nfd(232, 235, 101),
       range_nfd(44032, 44619, 4352) >>

\* a comparison that also holds at range.first
comp_AtFirst(cpt, range) == cpt <= range.first

\* the lambda comp
comp(cpt, range) == cpt < range.first

\* std::upper_bound over the whole table: the position of the first range
\* that comp puts after cpt, the end position when there is none
upper_bound(cpt) ==
    LET after == {k \in 1..Len(unicode_ranges_nfd) :
                      comp(cpt, unicode_ranges_nfd[k])} IN
    IF after = {} THEN Len(unicode_ranges_nfd) + 1
    ELSE CHOOSE k \in after : \A j \in after : k <= j

\* the values result[i] may take for cpt: it is upper_bound(...) - 1; an it
\* before the first range is read outside the table, and any value results
NfdOutcomes(cpt) ==
    LET it == upper_bound(cpt) - 1 IN
    IF it < 1 THEN 0..MAX_CODEPOINTS
    ELSE LET range == unicode_ranges_nfd[it] IN
         {IF range.first <= cpt /\ cpt <= range.last THEN range.nfd ELSE cpt}

MaxNfdLen == 3

\* codepoints at, inside, next to and far from the ranges, and two targets
NfdCpts == {65, 191, 192, 197, 198, 233, 4352, 44619, 44620}

NfdInit ==
    /\ n_pc = "first"
    /\ n_cpts \in SeqsUpTo(NfdCpts, MaxNfdLen)
    /\ n_i = 0
    /\ n_result = [k \in 1..Len(n_cpts) |-> 0]
    /\ n_first = <<>>
    /\ CodecIdle /\ MapIdle /\ SplitIdle /\ DriverIdle

\* the argument of the running call
NfdArg == IF n_pc = "first" THEN n_cpts ELSE n_first

\* one iteration of the for loop
NfdIterate ==
    /\ n_pc \in {"first", "second"}
    /\ n_i < Len(NfdArg)
    /\ \E v \in NfdOutcomes(NfdArg[n_i + 1]) :
           n_result' = [n_result EXCEPT ![n_i + 1] = v]
    /\ n_i' = n_i + 1
    /\ UNCHANGED <<n_pc, n_cpts, n_first, codecVars, mapVars, splitVars, driverVars>>

\* the first call returns result, and the function is called on it
NfdReturn ==
    /\ n_pc = "first"
    /\ n_i >= Len(n_cpts)
    /\ n_first' = n_result
    /\ n_pc' = "second"
    /\ n_i' = 0
    /\ n_result' = [k \in 1..Len(n_result) |-> 0]
    /\ UNCHANGED <<n_cpts, codecVars, mapVars, splitVars, driverVars>>

\* the second call returns result
NfdReturnAgain ==
    /\ n_pc = "second"
    /\ n_i >= Len(n_first)
    /\ n_pc' = "done"
    /\ UNCHANGED <<n_cpts, n_i, n_result, n_first, codecVars, mapVars, splitVars, driverVars>>

NfdNext == NfdIterate \/ NfdReturn \/ NfdReturnAgain

SpecNfd == NfdInit /\ [][NfdNext]_vars

(***************************************************************************)
(* Properties of the codec and of the byte maps.                           *)
(***************************************************************************)
Utf8Length(c) == IF c <= 127 THEN 1 ELSE IF c <= 2047 THEN 2
                 ELSE IF c <= 65535 THEN 3 ELSE 4

\* C6: for every codepoint cp in [0, 0x110000), unicode_cpt_to_utf8(cp) does
\* not throw, decoding its bytes with unicode_cpts_from_utf8 does not throw and
\* returns exactly <<cp>>, and the encoding has 1, 2, 3 or 4 bytes according to
\* the ranges <= 0x7F, <= 0x7FF, <= 0xFFFF, <= 0x10FFFF.
C6_RoundTrip ==
    (cp >= 0 /\ cp < MAX_CODEPOINTS) =>
        /\ c_pc # "throw"
        /\ c_pc \in {"decode", "done"} => Len(utf8) = Utf8Length(cp)
        /\ c_pc = "done" => result = <<cp>>

\* a four-byte codepoint and a surrogate have made the round trip
C6_Witness ==
    /\ c_pc = "done" /\ cp \in {65536, 55296} /\ result = <<cp>>
    /\ Len(utf8) \in {3, 4}

\* the bytes outside 0x21..0x7E, 0xA1..0xAC, 0xAE..0xFF, and the number of
\* such bytes below b
FilledBytes == (0..255) \ ((33..126) \cup (161..172) \cup (174..255))
FillRank(b) == Cardinality({r \in FilledBytes : r < b})

\* C7: once both maps are built, each has exactly 256 entries, every byte b
\* satisfies unicode_utf8_to_byte(unicode_byte_to_utf8(b)) = b with no lookup
\* failing, and in both maps the bytes outside the three seeded ranges are
\* paired with the codepoints 256, 257, ... in ascending byte order.
C7_ByteMapsInverse ==
    m_phase = "done" =>
        /\ DOMAIN byte_to_utf8_map = 0..255
        /\ Cardinality(DOMAIN utf8_to_byte_map) = 256
        /\ \A b \in 0..255 :
              /\ unicode_byte_to_utf8(b).err = "none"
              /\ unicode_utf8_to_byte(unicode_byte_to_utf8(b).val)
                    = [err |-> "none", val |-> b]
        /\ \A b \in FilledBytes :
              LET s == unicode_cpt_to_utf8(256 + FillRank(b)).val IN
              /\ byte_to_utf8_map[b] = s
              /\ s \in DOMAIN utf8_to_byte_map /\ utf8_to_byte_map[s] = b

\* both maps are built; byte 0 is paired with U+0100 and byte 0xAD with U+0143
C7_Witness ==
    /\ m_phase = "done"
    /\ byte_to_utf8_map[0] = <<196, 128>>
    /\ <<197, 131>> \in DOMAIN utf8_to_byte_map
    /\ utf8_to_byte_map[<<197, 131>>] = 173

\* what a byte string holds, read off its bytes: an encoded surrogate (ED
\* A0..BF xx), an overlong encoding (C0/C1 xx, E0 80..9F xx, F0 80..8F xx xx)
\* or a lead byte followed by too few continuation bytes
ContCount(s, i, k) == \A j \in 1..k : i + j <= Len(s) /\ IsCont(s[i + j])
Needs(b) == IF b \div 32 = 6 THEN 1 ELSE IF b \div 16 = 14 THEN 2
            ELSE IF b \div 8 = 30 THEN 3 ELSE 0
ContainsSurrogate(s) ==
    \E i \in 1..Len(s) : s[i] = 237 /\ ContCount(s, i, 2) /\ s[i + 1] >= 160
ContainsOverlong(s) ==
    \E i \in 1..Len(s) :
        \/ s[i] \in {192, 193} /\ ContCount(s, i, 1)
        \/ s[i] = 224 /\ ContCount(s, i, 2) /\ s[i + 1] < 160
        \/ s[i] = 240 /\ ContCount(s, i, 3) /\ s[i + 1] < 144
ContainsTruncated(s) ==
    \E i \in 1..Len(s) : Needs(s[i]) > 0 /\ ~ContCount(s, i, Needs(s[i]))

\* C8: unicode_cpts_from_utf8 returns no codepoint sequence for a string that
\* contains an encoded surrogate, an overlong encoding or a truncated
\* multi-byte sequence.
C8_RejectsIllFormed ==
    (cp = -1 /\ (ContainsSurrogate(utf8) \/ ContainsOverlong(utf8)
                 \/ ContainsTruncated(utf8)))
        => c_pc # "done"

(***************************************************************************)
(* Properties of the hand-written splitters.                               *)
(***************************************************************************)
\* The reference matcher of the GPT-2 pattern
\*   's|'t|'re|'ve|'m|'ll|'d| ?\p{L}+| ?\p{N}+| ?[^\s\p{L}\p{N}]+|\s+(?!\S)|\s+
\* on the segment [ini, end) of cpts: the length the first alternative that
\* matches at p consumes (greedy, backtracking where the alternative needs
\* it), 0 when none matches.
RefCpt(cpts, p) == cpts[p + 1]
RefIsSpace(c) == c \in unicode_set_whitespace
RefInClass(cls, c) ==
    CASE cls = "L" -> unicode_ranges_flags(c) = "LETTER"
      [] cls = "N" -> unicode_ranges_flags(c) = "NUMBER"
      [] cls = "notSLN" -> ~RefIsSpace(c) /\ unicode_ranges_flags(c) \notin {"LETTER", "NUMBER"}
      [] cls = "s" -> RefIsSpace(c)

RECURSIVE RefRun(_, _, _, _)
RefRun(cls, cpts, end, p) ==
    IF p < end /\ RefInClass(cls, RefCpt(cpts, p))
    THEN 1 + RefRun(cls, cpts, end, p + 1) ELSE 0

RefLiteral(lit, cpts, end, p) ==
    IF p + Len(lit) <= end /\ \A i \in 1..Len(lit) : RefCpt(cpts, p + i - 1) = lit[i]
    THEN Len(lit) ELSE 0

\*  ?class+ : with the space when a run follows it, else without
RefOptSpaceRun(cls, cpts, end, p) ==
    LET with == IF p < end /\ RefCpt(cpts, p) = SPACE
                THEN RefRun(cls, cpts, end, p + 1) ELSE 0
    IN  IF with > 0 THEN 1 + with ELSE RefRun(cls, cpts, end, p)

\* \s+(?!\S): the longest whitespace prefix not followed by a non-whitespace
RefSpaceLookahead(cpts, end, p) ==
    LET run == RefRun("s", cpts, end, p) IN
    IF run = 0 THEN 0
    ELSE IF p + run = end THEN run
    ELSE run - 1

RefAlternatives(cpts, end, p) ==
    << RefLiteral(<<APOS, LOWER_S>>, cpts, end, p),
       RefLiteral(<<APOS, LOWER_T>>, cpts, end, p),
       RefLiteral(<<APOS, LOWER_R, LOWER_E>>, cpts, end, p),
       RefLiteral(<<APOS, LOWER_V, LOWER_E>>, cpts, end, p),
       RefLiteral(<<APOS, LOWER_M>>, cpts, end, p),
       RefLiteral(<<APOS, LOWER_L, LOWER_L>>, cpts, end, p),
       RefLiteral(<<APOS, LOWER_D>>, cpts, end, p),
       RefOptSpaceRun("L", cpts, end, p),
       RefOptSpaceRun("N", cpts, end, p),
       RefOptSpaceRun("notSLN", cpts, end, p),
       RefSpaceLookahead(cpts, end, p),
       RefRun("s", cpts, end, p) >>

RefMatch(cpts, end, p) ==
    LET alts == RefAlternatives(cpts, end, p)
        hits == {i \in 1..Len(alts) : alts[i] > 0}
    IN  IF hits = {} THEN 1
        ELSE alts[CHOOSE i \in hits : \A j \in hits : i <= j]

RECURSIVE RefSegment(_, _, _)
RefSegment(cpts, end, p) ==
    IF p >= end THEN <<>>
    ELSE LET m == RefMatch(cpts, end, p)
         IN  <<m>> \o RefSegment(cpts, end, p + m)

RECURSIVE RefSplit(_, _, _)
RefSplit(cpts, offsets, from) ==
    IF offsets = <<>> THEN <<>>
    ELSE RefSegment(cpts, from + Head(offsets), from)
         \o RefSplit(cpts, Tail(offsets), from + Head(offsets))

\* C3: for every sequence of valid codepoints and every input segment, the
\* offsets the GPT-2 splitter returns are the token lengths of the reference
\* matcher, which at each position takes the first alternative of the GPT-2
\* pattern that matches (the segment end being the end of input) and emits one
\* codepoint when none matches.
C3_Gpt2MatchesPattern ==
    (s_kind = "gpt2" /\ s_pc = "done" /\ \A i \in 1..Len(s_cpts) : s_cpts[i] < MAX_CODEPOINTS)
        => s_bpe_offsets = RefSplit(s_cpts, s_offsets, 0)

\* the start positions (0-based) of the tokens of an offset list
TokenStart(offsets, k) == SumSeq(SubSeq(offsets, 1, k - 1))
\* the end of the input segment that holds position p
RECURSIVE SegmentEndOf(_, _, _)
SegmentEndOf(offsets, from, p) ==
    IF offsets = <<>> THEN from
    ELSE IF p < from + Head(offsets) THEN from + Head(offsets)
    ELSE SegmentEndOf(Tail(offsets), from + Head(offsets), p)

ApostropheBeforeSTMD(cpts, p) ==
    /\ p + 2 <= Len(cpts)
    /\ cpts[p + 1] = APOS
    /\ unicode_map_lowercase(cpts[p + 2]) \in {LOWER_S, LOWER_T, LOWER_M, LOWER_D}

\* C4 as stated: whenever the input of the LLaMA-3 splitter holds an apostrophe
\* immediately followed by s, t, m or d in either case, the output has a token
\* of exactly 2 codepoints that starts at the apostrophe.
C4_ContractionAnywhere ==
    (s_kind = "llama3" /\ s_pc = "done") =>
        \A p \in 0..(Len(s_cpts) - 1) :
            ApostropheBeforeSTMD(s_cpts, p) =>
                \E k \in 1..Len(s_bpe_offsets) :
                    TokenStart(s_bpe_offsets, k) = p /\ s_bpe_offsets[k] = 2

\* C4 amended: whenever the input of the LLaMA-3 splitter holds an apostrophe
\* immediately followed, inside the same input segment, by s, t, m or d in
\* either case, and no earlier token has consumed the apostrophe (a token
\* starts at it), that token has exactly 2 codepoints.
C4_ContractionAtTokenStart ==
    (s_kind = "llama3" /\ s_pc = "done") =>
        \A p \in 0..(Len(s_cpts) - 1) :
            (ApostropheBeforeSTMD(s_cpts, p)
             /\ p + 2 <= SegmentEndOf(s_offsets, 0, p)) =>
                \A k \in 1..Len(s_bpe_offsets) :
                    TokenStart(s_bpe_offsets, k) = p => s_bpe_offsets[k] = 2

\* "s'S": the letter, then the upper-case contraction as one token
C4_Witness ==
    /\ s_kind = "llama3" /\ s_pc = "done"
    /\ s_cpts = <<LOWER_S, APOS, UPPER_S>>
    /\ s_offsets = <<3>>
    /\ s_bpe_offsets = <<1, 2>>

\* floor(k/3) tokens of 3 codepoints, then one of k mod 3 when that is not 0
RECURSIVE DigitChunks(_)
DigitChunks(k) ==
    IF k >= 3 THEN <<3>> \o DigitChunks(k - 3)
    ELSE IF k > 0 THEN <<k>> ELSE <<>>

NumberRunFrom(cpts, end, p) == RefRun("N", cpts, end, p)

\* C5: when the digit rule of the LLaMA-3 splitter has run from a position p
\* that begins a maximal run of k NUMBER codepoints inside the segment, it has
\* appended exactly floor(k/3) tokens of 3 codepoints and then one token of
\* k mod 3 codepoints when k mod 3 is not 0, and it has left the cursor and
\* _prev_end at p + k, so the tokens cover the run and nothing else.
C5_DigitRunChunks ==
    (s_kind = "llama3" /\ last_rule = "numbers"
     /\ (last_pos = offset_ini
         \/ unicode_ranges_flags(s_cpts[last_pos]) # "NUMBER")) =>
        LET k == NumberRunFrom(s_cpts, offset_end, last_pos) IN
        /\ k >= 1
        /\ s_bpe_offsets = last_out \o DigitChunks(k)
        /\ pos = last_pos + k
        /\ s_prev_end = last_pos + k

\* a run of 7 digits has been emitted as 3, 3, 1 after a letter
C5_Witness ==
    /\ s_kind = "llama3" /\ last_rule = "numbers"
    /\ s_cpts = <<LOWER_S, DIGIT_1, DIGIT_1, DIGIT_1, DIGIT_1, DIGIT_1, DIGIT_1>>
    /\ s_offsets = <<7>>
    /\ s_bpe_offsets = <<1, 3, 3>>

(***************************************************************************)
(* Properties of the driver.                                               *)
(***************************************************************************)
\* C1: every stage of the driver (the GPT-2 splitter, the LLaMA-3 splitter,
\* the std::regex and the std::wregex fallback) returns offsets of the same
\* sum as the offsets it was given, so from the first offsets on, after any
\* sequence of stages, the sum of bpe_offsets is the number of codepoints of
\* the text.
C1_SumConserved ==
    d_pc \in {"patterns", "encode", "done"} => SumSeq(bpe_offsets) = Len(d_cpts)

\* two stages have run, a hand-written splitter last, over a text of two
\* codepoints that is now split in two
C1_Witness ==
    /\ d_pc = "patterns"
    /\ idx = 3
    /\ last_path = "custom"
    /\ Len(d_cpts) = 2
    /\ Len(bpe_offsets) = 2

\* C2: when unicode_regex_split has built the strings of the final offsets
\* (before the byte encoding), their concatenation in order decodes to the
\* codepoints of the text, and is the text itself when the text is well formed.
C2_WordsConcatenateToText ==
    d_pc \in {"encode", "done"} =>
        /\ unicode_cpts_from_utf8(Flatten(bpe_words)) = Ok(d_cpts)
        /\ unicode_wstring_from_utf8(text).err = "none" => Flatten(bpe_words) = text

\* two strings were built, the first of them of two bytes
C2_Witness ==
    /\ d_pc = "encode"
    /\ Len(bpe_words) = 2
    /\ Len(bpe_words[1]) = 2
    /\ Len(bpe_words[2]) = 1

\* the patterns unicode_regex_split_custom compares with
NamedPatterns ==
    {name \in Patterns :
        RegexUtf8(name) \in {GPT2_REGEX, LLAMA3_REGEX_I, LLAMA3_REGEX_C}}

\* C9: when the pattern loop is at the GPT-2 pattern or at one of the two
\* LLaMA-3 patterns, for every text, the empty one included, the step ends
\* with the offsets the hand-written splitter returns, and neither the
\* collapsed nor the wide fallback runs.
C9_NamedPatternUsesCustom ==
    [][(AtPattern /\ regex_exprs[idx] \in NamedPatterns) =>
           /\ last_path' = "custom"
           /\ d_pc' = "patterns"
           /\ idx' = idx + 1
           /\ bpe_offsets' = tmp]_vars

\* a pattern with a property class \p{...} and a codepoint >= 128, which is a
\* byte >= 128 of its UTF-8 string
ContainsProperty(regex) == Find(regex, <<92, 112, 123>>)
HasNonAscii(regex) == \E i \in 1..Len(regex) : regex[i] >= 128
MixedPatterns ==
    {name \in Patterns :
        ContainsProperty(RegexUtf8(name)) /\ HasNonAscii(RegexUtf8(name))}

\* C10 as stated: a call whose list holds a pattern with a property class
\* \p{...} and a non-ASCII codepoint ends, for every text and whatever the
\* other patterns are, with the error on categories and non-ASCII characters
\* and with no pre-token.
C10_MixedPatternAlwaysRejected ==
    ((\E i \in 1..Len(regex_exprs) : regex_exprs[i] \in MixedPatterns)
     /\ d_pc \in {"done", "throw"}) =>
        /\ d_pc = "throw"
        /\ d_err = "categories_and_non_ascii"
        /\ d_result = <<>>

\* the patterns the sanity check looks at: one of \p{N}, \p{L}, \p{P} and a
\* codepoint >= 128
CheckedMixedPatterns ==
    {name \in MixedPatterns : UsesCategory(RegexUtf8(name))}

\* C10 amended: when the pattern loop reaches a pattern that holds one of
\* \p{N}, \p{L}, \p{P} and a codepoint >= 128, the call ends at that pattern
\* with the error on categories and non-ASCII characters and with no
\* pre-token; a text that does not decode and an exception of an earlier
\* pattern end the call before, and a pattern whose property classes are
\* all others goes to the wide fallback unchecked.
C10_ReachedCategoryPatternRejected ==
    [][(AtPattern /\ regex_exprs[idx] \in CheckedMixedPatterns) =>
           /\ d_pc' = "throw"
           /\ d_err' = "categories_and_non_ascii"
           /\ d_result' = <<>>
           /\ bpe_words' = <<>>]_vars

\* the call was rejected at its second pattern, after a stage that split a
\* text of two codepoints
C10_Witness ==
    /\ d_pc = "throw"
    /\ d_err = "categories_and_non_ascii"
    /\ idx = 2
    /\ regex_exprs[idx] \in CheckedMixedPatterns
    /\ Len(d_cpts) = 2
    /\ Len(bpe_offsets) = 2
    /\ d_result = <<>>

(***************************************************************************)
(* Properties of unicode_cpts_normalize_nfd.                               *)
(***************************************************************************)
RangesContaining(c) ==
    {k \in 1..Len(unicode_ranges_nfd) :
        unicode_ranges_nfd[k].first <= c /\ c <= unicode_ranges_nfd[k].last}

NfdTarget(c) ==
    IF RangesContaining(c) = {} THEN c
    ELSE unicode_ranges_nfd[CHOOSE k \in RangesContaining(c) : TRUE].nfd

\* C11: the vector a call of unicode_cpts_normalize_nfd returns has the length
\* of its argument, holds the target of the NFD range for each codepoint inside
\* a range and the codepoint itself otherwise, and a second call on that vector
\* returns it unchanged.
C11_NormalizeIdempotent ==
    /\ n_pc \in {"second", "done"} =>
           /\ Len(n_first) = Len(n_cpts)
           /\ \A k \in 1..Len(n_cpts) : n_first[k] = NfdTarget(n_cpts[k])
    /\ n_pc = "done" => n_result = n_first

\* both calls have returned for a vector with a codepoint at the start of a
\* range, one at the end of a range and one outside every range
C11_Witness ==
    /\ n_pc = "done"
    /\ n_cpts = <<192, 44619, 198>>
    /\ n_first = <<65, 4352, 198>>
    /\ n_result = n_first

(***************************************************************************)
(* Properties of the whitespace rules of the LLaMA-3 splitter.             *)
(***************************************************************************)
WhitespaceRules == {"newlines", "whitespace_lookahead", "whitespace", "no_match"}

\* the positions after a '\r' or '\n' of the maximal whitespace run that
\* starts at p and stays inside the segment that ends at end
NewlineEnds(cpts, end, p) ==
    {p + j : j \in {k \in 1..RefRun("s", cpts, end, p) : cpts[p + k] \in {CR, LF}}}

LastNewlineEnd(cpts, end, p) ==
    CHOOSE e \in NewlineEnds(cpts, end, p) : \A o \in NewlineEnds(cpts, end, p) : o <= e

\* C12: when an iteration of the LLaMA-3 splitter has come to its whitespace
\* rules at a position p whose maximal whitespace run inside the segment holds
\* a '\r' or '\n', it has appended exactly one token, which starts at p and
\* ends right after the last '\r' or '\n' of the run, and the cursor stands
\* there, so the whitespace after it is left for the next iterations.
C12_NewlineRunToken ==
    (s_kind = "llama3" /\ last_rule \in WhitespaceRules
     /\ NewlineEnds(s_cpts, offset_end, last_pos) # {}) =>
        LET e == LastNewlineEnd(s_cpts, offset_end, last_pos) IN
        /\ last_rule = "newlines"
        /\ s_bpe_offsets = Append(last_out, e - last_pos)
        /\ SumSeq(last_out) = last_pos
        /\ pos = e
        /\ s_prev_end = e

\* the run "\n\r " at the start of a segment: the token ends after the '\r'
\* and the space is left
C12_Witness ==
    /\ s_kind = "llama3" /\ last_rule = "newlines"
    /\ s_cpts = <<LF, CR, SPACE>>
    /\ s_offsets = <<3>>
    /\ last_pos = 0
    /\ s_bpe_offsets = <<2>>
    /\ pos = 2

(***************************************************************************)
(* Properties of the stages as partitions.                                 *)
(***************************************************************************)
\* the segment boundaries of an offset list: the sums of its prefixes
Boundaries(offsets) == {SumSeq(SubSeq(offsets, 1, k)) : k \in 0..Len(offsets)}

\* the number of codepoints of each string of a list
RECURSIVE CptLengths(_)
CptLengths(words) ==
    IF words = <<>> THEN <<>>
    ELSE <<Len(unicode_cpts_from_utf8(Head(words)).val)>> \o CptLengths(Tail(words))

\* C13: every stage refines the partition it is given: each boundary of the
\* offsets a hand-written splitter or a regex fallback reads is a boundary
\* of the offsets it returns, in the driver's pattern loop and in a call of a
\* hand-written splitter on any segmentation; the strings built after the
\* last pattern have the boundaries of the last offsets.
C13_StagesRefine ==
    [][/\ (d_pc = "patterns" /\ d_pc' = "patterns") =>
              Boundaries(bpe_offsets) \subseteq Boundaries(bpe_offsets')
       /\ d_pc' = "encode" =>
              /\ bpe_offsets' = bpe_offsets
              /\ Boundaries(CptLengths(bpe_words')) = Boundaries(bpe_offsets)
       /\ s_pc' = "done" =>
              Boundaries(s_offsets') \subseteq Boundaries(s_bpe_offsets')]_vars

\* the GPT-2 splitter cut the three codepoints into 1 and 2, and the regex
\* fallback then cut the second segment again
C13_Witness ==
    /\ d_pc = "patterns"
    /\ regex_exprs = <<"GPT2", "\\s+">>
    /\ idx = 3
    /\ last_path = "wide"
    /\ Len(d_cpts) = 3
    /\ bpe_offsets = <<1, 1, 1>>

(***************************************************************************)
(* Properties of the collapsed text.                                       *)
(***************************************************************************)
\* the byte that stands for a codepoint: itself below 128, else by category
StandInByte(c) ==
    IF c < 128 THEN c
    ELSE IF c >= MAX_CODEPOINTS THEN 208
    ELSE IF c \in NumberCpts THEN 209
    ELSE IF c \in LetterCpts THEN 210
    ELSE IF c \in PunctuationCpts THEN 211
    ELSE 208

\* C14: once the text is decoded and some pattern names a category, the
\* collapsed text has one byte per codepoint of the text, and byte i is the
\* stand-in of codepoint i alone: the codepoint below 128, else 0xD1 for a
\* NUMBER, 0xD2 for a LETTER, 0xD3 for a PUNCTUATION and 0xD0 for any other
\* category.
C14_CollapsedBytePerCodepoint ==
    (need_collapse /\ d_pc \in {"patterns", "encode", "done"}) =>
        /\ Len(text_collapsed) = Len(d_cpts)
        /\ \A i \in 1..Len(d_cpts) : text_collapsed[i] = StandInByte(d_cpts[i])

\* a number, a punctuation mark and a symbol above 127 have been collapsed
C14_Witness ==
    /\ d_pc = "patterns"
    /\ need_collapse
    /\ d_cpts = <<178, 161, 169>>
    /\ text_collapsed = <<209, 211, 208>>

(***************************************************************************)
(* Termination of the main loops of the hand-written splitters.            *)
(***************************************************************************)
\* C15: an iteration of the main loop of either hand-written splitter starts
\* with _prev_end = pos, moves pos strictly forward and not past offset_end,
\* and ends with _prev_end = pos again; the iterations made in a segment
\* never outnumber the codepoints the cursor has passed, so the loop ends
\* after at most offset_end - offset_ini iterations.
C15_CursorAdvances ==
    [][(s_pc = "loop" /\ pos < offset_end) =>
           /\ s_prev_end = pos
           /\ pos' > pos
           /\ pos' <= offset_end
           /\ s_prev_end' = pos'
           /\ iterations' = iterations + 1
           /\ iterations' <= pos' - offset_ini
           /\ iterations' <= offset_end - offset_ini]_vars

\* the GPT-2 loop has ended a segment of three codepoints in two iterations,
\* the first a contraction
C15_Witness ==
    /\ s_kind = "gpt2" /\ s_pc = "loop"
    /\ s_cpts = <<APOS, LOWER_S, LOWER_L>>
    /\ s_offsets = <<3>>
    /\ pos = 3 /\ offset_end = 3 /\ s_prev_end = 3
    /\ iterations = 2
    /\ s_bpe_offsets = <<2, 1>>

(***************************************************************************)
(* Properties of the lengths of the segments.                              *)
(***************************************************************************)
\* C16: no stage leaves a segment of length 0: for a text that is not empty,
\* after a hand-written splitter or a regex fallback has run, every offset of
\* bpe_offsets is at least 1, and no returned string is empty, whatever the
\* patterns.
C16_NoZeroLengthSegment ==
    text # <<>> =>
        /\ (d_pc = "patterns" /\ last_path # "none") =>
               \A k \in 1..Len(bpe_offsets) : bpe_offsets[k] >= 1
        /\ d_pc = "done" => \A k \in 1..Len(d_result) : d_result[k] # <<>>

(***************************************************************************)
(* Properties of the range of the decoded codepoints.                      *)
(***************************************************************************)
\* C17: every codepoint unicode_cpts_from_utf8 returns lies in [0, 0x110000),
\* so unicode_cpt_to_utf8 encodes each of them without an exception: the
\* vector the decoding loop has built and returns can always be encoded
\* again.
C17_DecodedInRange ==
    c_pc \in {"decode", "done"} =>
        /\ \A k \in 1..Len(result) : 0 <= result[k] /\ result[k] < MAX_CODEPOINTS
        /\ unicode_cpts_to_utf8(result).err = "none"

====
